---- MODULE Spec2Model ----
(***************************************************************************)
(* autorebase (src/src/lib.rs): rebase every eligible local branch onto    *)
(* the newest commit of the mainline that does not conflict, remembering   *)
(* in a persisted memo the branches that were stopped by conflicts.        *)
(*                                                                         *)
(* The repository is modelled as a linear mainline 0..MaxMain (the commits *)
(* of onto_branch and of its remote counterpart) plus topic branches, each *)
(* sitting with its own commits on one mainline commit.  A commit id is    *)
(* <<owner, n>>: the tip of `owner` when its history joins the mainline at *)
(* commit n.  Every git command either succeeds or fails, chosen freely.   *)
(***************************************************************************)
EXTENDS Integers, Sequences, FiniteSets, TLC

\* Number of mainline commits above the root commit 0.
MaxMain == 3
\* Number of consecutive invocations of autorebase on the same repository.
MaxRuns == 3
\* Number of consecutive invocations followed under fairness.
MaxFairRuns == 2

onto_branch == "master"
Topics == {"wip1", "wip2"}
Branches == {onto_branch} \cup Topics
\* `git for-each-ref refs/heads` lists refs sorted by name.
RefOrder == <<"master", "wip1", "wip2">>
Detached == "HEAD"

VARIABLES
    \* ---- the repository (the version-control collaborator's state)
    inCatalog,      \* is onto_branch a local branch (else another kind of ref)
    upstream,       \* branch -> has an upstream tracking ref
    checkedOut,     \* branch -> checked out in a worktree of the user
    commit,         \* ref -> commit id it points at
    remoteTip,      \* mainline commit the upstream of onto_branch points at
    head,           \* HEAD of the scratch worktree: Detached or a branch
    rebasing,       \* rebase-merge / rebase-apply exists in the scratch worktree
    disk,           \* .git/autorebase/conflicts.toml: set of <<branch, commit>>
    \* ---- locals of autorebase
    pc, conflicts, all_branches, idx, branch_commit, target_commit_list,
    stopped_by_conflicts, result,
    \* ---- observation of the run
    run,            \* number of the current invocation
    commit0,        \* the refs when the current invocation started
    cmds,           \* <<command, branch>> issued by the current invocation, and
                    \* <<"resolve failed", branch>> for a failed lib.rs 77
    attempts,       \* <<target, outcome>> of the current branch, in order
    skipped,        \* branches skipped in this invocation -> reason
    memo0,          \* <<branch, its commit, memo in memory, memo on disk>> when
                    \* the processing of the last processed branch started
    ended,          \* branch processed to its end in this invocation ->
                    \* its attempts and the candidates left untried
    prevResult,     \* result of the previous invocation
    prevEnded,      \* `ended` of the previous invocation
    inProgress,     \* branch in the InProgress state (lib.rs 71-111), or ""
    prevInProgress  \* `inProgress` when the previous invocation ended

repo == <<inCatalog, upstream, checkedOut, commit, remoteTip, head, rebasing, disk>>
locals == <<pc, conflicts, all_branches, idx, branch_commit, target_commit_list,
            stopped_by_conflicts, result>>
obs == <<run, inProgress, commit0, cmds, attempts, skipped, memo0, ended, prevResult, prevEnded, prevInProgress>>
vars == <<repo, locals, obs>>

----------------------------------------------------------------------------
\* Helpers

RECURSIVE SelectSeqIn(_, _)
SelectSeqIn(s, S) ==
    IF s = <<>> THEN <<>>
    ELSE IF Head(s) \in S THEN <<Head(s)>> \o SelectSeqIn(Tail(s), S)
         ELSE SelectSeqIn(Tail(s), S)

\* Variant of MemoRemove: the entry is not removed.
MemoRemoveNothing(m, b) == m

\* HashMap<String, String>: a function on the branches that have an entry.
EmptyMemo == [b \in {} |-> <<>>]
MemoGet(m, b) == IF b \in DOMAIN m THEN <<m[b]>> ELSE <<>>
MemoRemove(m, b) == [x \in DOMAIN m \ {b} |-> m[x]]
MemoInsert(m, b, c) == [x \in DOMAIN m \cup {b} |-> IF x = b THEN c ELSE m[x]]

\* conflicts.toml holds the table as key/value pairs.
WriteToFile(m) == {<<b, m[b]>> : b \in DOMAIN m}
ReadFromFile(d) == [b \in {p[1] : p \in d} |-> (CHOOSE p \in d : p[1] = b)[2]]

\* Variant of Persist: the file is not written.
PersistNothing(m, old) == old

\* lib.rs 72 and 110: the file after conflicts.write_to_file succeeded on
\* the memo m, `old` being the file before.
Persist(m, old) == WriteToFile(m)

\* get_branches: one BranchInfo per local branch, in ref order.
BranchInfo(b) ==
    [branch |-> b, upstream |-> upstream[b],
     worktree_path |-> checkedOut[b] \/ head = b]
GetBranches ==
    LET names == SelectSeqIn(RefOrder, IF inCatalog THEN Branches ELSE Topics)
    IN  [i \in 1..Len(names) |-> BranchInfo(names[i])]

\* Variant of GetTargetCommitList: the candidates oldest first.
GetTargetCommitListOldestFirst(b) ==
    LET tip == commit[onto_branch][2]
        mb == commit[b][2]
    IN  [i \in 1..(tip - mb) |-> mb + i]

\* get_merge_base: the mainline commit where the branch joins the mainline.
GetMergeBase(b) == commit[b][2]
\* get_target_commit_list: `git log merge_base..onto`, newest first.
GetTargetCommitList(b) ==
    LET tip == commit[onto_branch][2]
        mb == GetMergeBase(b)
    IN  [i \in 1..(tip - mb) |-> tip - i + 1]

Cur == all_branches[idx]
CurBranch == Cur.branch

----------------------------------------------------------------------------
\* State after `git worktree add --detach` has created the scratch worktree
\* and before the first invocation.

Init ==
    /\ inCatalog \in BOOLEAN
    /\ upstream \in [Branches -> BOOLEAN]
    /\ checkedOut \in [Branches -> BOOLEAN]
    \* only a local branch tracks an upstream or has a worktree path
    /\ ~inCatalog => ~upstream[onto_branch] /\ ~checkedOut[onto_branch]
    /\ remoteTip = MaxMain
    /\ \E tip \in 0..MaxMain : \E base \in [Topics -> 0..tip] :
         commit = [b \in Branches |->
                     IF b = onto_branch THEN <<b, tip>> ELSE <<b, base[b]>>]
    /\ head = Detached
    /\ rebasing = FALSE
    /\ \E m \in [Topics -> {0, 1}] :
         disk = {<<b, <<b, 0>>>> : b \in {t \in Topics : m[t] = 1}}
    /\ pc = "start"
    /\ conflicts = EmptyMemo
    /\ all_branches = <<>>
    /\ idx = 1
    /\ branch_commit = <<>>
    /\ target_commit_list = <<>>
    /\ stopped_by_conflicts = FALSE
    /\ result = "Running"
    /\ run = 1
    /\ commit0 = commit
    /\ cmds = {}
    /\ attempts = <<>>
    /\ skipped = EmptyMemo
    /\ memo0 = <<>>
    /\ ended = EmptyMemo
    /\ prevResult = "None"
    /\ prevEnded = EmptyMemo
    /\ inProgress = ""
    /\ prevInProgress = ""

\* `?` on a failed call: autorebase returns the error.
Fail ==
    /\ pc' = "returned"
    /\ result' = "Err"

\* Variant of NextBranch: the loop does not advance.
NextBranchStuck ==
    /\ idx' = idx
    /\ pc' = "loop"
    /\ result' = result

\* End of the `for branch in all_branches` body, or `continue`.
NextBranch ==
    /\ idx' = idx + 1
    /\ IF idx + 1 > Len(all_branches)
         THEN pc' = "returned" /\ result' = "Ok"
         ELSE pc' = "loop" /\ result' = result

----------------------------------------------------------------------------
\* Variant of ShouldPull: the worktree of the mainline is not looked at.
ShouldPullAnyway(branches) ==
    \E i \in 1..Len(branches) : branches[i].branch = onto_branch

\* Variant of ShouldPull: the test of the worktree path is inverted.
ShouldPullIfCheckedOut(branches) ==
    \E i \in 1..Len(branches) :
        branches[i].branch = onto_branch /\ branches[i].worktree_path

\* lib.rs 31-33: the mainline is refreshed when it is a local branch that is
\* not checked out in any worktree.
ShouldPull(branches) ==
    \E i \in 1..Len(branches) :
        branches[i].branch = onto_branch /\ ~branches[i].worktree_path

\* lib.rs 9-42: load the memo, list the branches, decide on the refresh.
Start ==
    /\ pc = "start"
    /\ \E readOk, listOk \in BOOLEAN :
         IF ~readOk
           THEN Fail /\ UNCHANGED <<conflicts, all_branches, idx>>
         ELSE IF ~listOk
           THEN Fail /\ conflicts' = ReadFromFile(disk)
                     /\ UNCHANGED <<all_branches, idx>>
         ELSE
           /\ conflicts' = ReadFromFile(disk)
           /\ all_branches' = GetBranches
           /\ idx' = 1
           /\ pc' = IF ShouldPull(GetBranches) THEN "checkout_onto" ELSE "loop"
           /\ result' = result
    /\ UNCHANGED <<repo, branch_commit, target_commit_list, stopped_by_conflicts, obs>>

\* lib.rs 34: git checkout onto_branch, in the scratch worktree.
CheckoutOnto ==
    /\ pc = "checkout_onto"
    /\ cmds' = cmds \cup {<<"checkout", onto_branch>>}
    /\ \E ok \in BOOLEAN :
         IF ok THEN /\ head' = onto_branch
                    /\ pc' = "pull"
                    /\ result' = result
               ELSE Fail /\ head' = head
    /\ UNCHANGED <<inCatalog, upstream, checkedOut, commit, remoteTip, rebasing, disk,
                   conflicts, all_branches, idx, branch_commit, target_commit_list,
                   stopped_by_conflicts,
                   run, inProgress, commit0, attempts, skipped, memo0, ended, prevResult, prevEnded, prevInProgress>>

\* lib.rs 35: git pull --ff-only. Needs an upstream; moves the checked out
\* branch to the upstream's commit.
Pull ==
    /\ pc = "pull"
    /\ cmds' = cmds \cup {<<"pull", head>>}
    /\ \E ok \in {o \in BOOLEAN : o => upstream[head]} :
         IF ok THEN /\ commit' = [commit EXCEPT ![head] = <<head, remoteTip>>]
                    /\ pc' = "detach_onto"
                    /\ result' = result
               ELSE Fail /\ commit' = commit
    /\ UNCHANGED <<inCatalog, upstream, checkedOut, remoteTip, head, rebasing, disk,
                   conflicts, all_branches, idx, branch_commit, target_commit_list,
                   stopped_by_conflicts,
                   run, inProgress, commit0, attempts, skipped, memo0, ended, prevResult, prevEnded, prevInProgress>>

\* lib.rs 36: git checkout --detach.
DetachOnto ==
    /\ pc = "detach_onto"
    /\ \E ok \in BOOLEAN :
         IF ok THEN /\ head' = Detached
                    /\ pc' = "loop"
                    /\ result' = result
               ELSE Fail /\ head' = head
    /\ UNCHANGED <<inCatalog, upstream, checkedOut, commit, remoteTip, rebasing, disk,
                   conflicts, all_branches, idx, branch_commit, target_commit_list,
                   stopped_by_conflicts, obs>>

\* Variant of SkipReason: a branch that tracks an upstream is not skipped.
SkipReasonNoUpstream(info, memo, c) ==
    IF info.branch = onto_branch THEN "is-target"
    ELSE IF info.worktree_path THEN "checked-out"
    ELSE IF c # <<>> /\ MemoGet(memo, info.branch) = c THEN "unchanged-since-conflict"
    ELSE ""

\* Variant of SkipReason: the worktree path is tested before the upstream.
SkipReasonWorktreeFirst(info, memo, c) ==
    IF info.branch = onto_branch THEN "is-target"
    ELSE IF info.worktree_path THEN "checked-out"
    ELSE IF info.upstream THEN "tracks-upstream"
    ELSE IF c # <<>> /\ MemoGet(memo, info.branch) = c THEN "unchanged-since-conflict"
    ELSE ""

\* Variant of SkipReason: the memo is not consulted.
SkipReasonNoMemo(info, memo, c) ==
    IF info.branch = onto_branch THEN "is-target"
    ELSE IF info.upstream THEN "tracks-upstream"
    ELSE IF info.worktree_path THEN "checked-out"
    ELSE ""

\* The skip reason of lib.rs 46-57 and 66, or "" when the branch is processed.
\* `c` is the commit of the branch as a one-element tuple, <<>> before it is
\* looked up.
SkipReason(info, memo, c) ==
    IF info.branch = onto_branch THEN "is-target"
    ELSE IF info.upstream THEN "tracks-upstream"
    ELSE IF info.worktree_path THEN "checked-out"
    ELSE IF c # <<>> /\ MemoGet(memo, info.branch) = c THEN "unchanged-since-conflict"
    ELSE ""

\* lib.rs 44-72: the head of the loop body for one branch.
Evaluate ==
    /\ pc = "loop"
    /\ LET b == CurBranch
       IN  IF SkipReason(Cur, conflicts, <<>>) # ""
             THEN /\ skipped' = MemoInsert(skipped, b, SkipReason(Cur, conflicts, <<>>))
                  /\ NextBranch
                  /\ UNCHANGED <<disk, conflicts, branch_commit, attempts, memo0,
                                 inProgress>>
           ELSE \E revOk, writeOk \in BOOLEAN :
             IF ~revOk
               THEN Fail /\ UNCHANGED <<disk, conflicts, branch_commit, attempts,
                                        skipped, idx, memo0, inProgress>>
             ELSE IF SkipReason(Cur, conflicts, <<commit[b]>>) # ""
               THEN /\ branch_commit' = commit[b]
                    /\ skipped' = MemoInsert(skipped, b,
                                             SkipReason(Cur, conflicts, <<commit[b]>>))
                    /\ NextBranch
                    /\ UNCHANGED <<disk, conflicts, attempts, memo0, inProgress>>
             ELSE /\ branch_commit' = commit[b]
                  /\ conflicts' = MemoRemove(conflicts, b)
                  /\ attempts' = <<>>
                  /\ memo0' = <<b, commit[b], conflicts, disk>>
                  /\ UNCHANGED <<skipped, idx>>
                  /\ IF writeOk
                       THEN /\ disk' = Persist(MemoRemove(conflicts, b), disk)
                            /\ inProgress' = b
                            /\ pc' = "resolve"
                            /\ result' = result
                       ELSE Fail /\ disk' = disk /\ inProgress' = inProgress
    /\ UNCHANGED <<inCatalog, upstream, checkedOut, commit, remoteTip, head, rebasing,
                   all_branches, target_commit_list, stopped_by_conflicts,
                   run, commit0, cmds, ended, prevResult, prevEnded, prevInProgress>>

\* Variant of AfterResolve: the error is dropped and the loop body goes on.
AfterResolveIgnore(ok) == "checkout"

\* lib.rs 77: where autorebase goes after get_target_commit_list, `?`
\* returning its error.
AfterResolve(ok) == IF ok THEN "checkout" ELSE "returned"

\* lib.rs 77: get_target_commit_list (merge-base, then log). It fails when
\* the branch and the mainline share no ancestor or a ref does not resolve.
Resolve ==
    /\ pc = "resolve"
    /\ \E ok \in BOOLEAN :
         /\ target_commit_list' = IF ok THEN GetTargetCommitList(CurBranch)
                                  ELSE target_commit_list
         /\ cmds' = IF ok THEN cmds ELSE cmds \cup {<<"resolve failed", CurBranch>>}
         /\ pc' = AfterResolve(ok)
         /\ result' = IF AfterResolve(ok) = "returned" THEN "Err" ELSE result
    /\ UNCHANGED <<repo, conflicts, all_branches, idx, branch_commit,
                   stopped_by_conflicts,
                   run, inProgress, commit0, attempts, skipped, memo0, ended,
                   prevResult, prevEnded, prevInProgress>>

\* lib.rs 80-82: checkout_branch (git switch), refused while a rebase is in
\* progress in the worktree.
CheckoutBranch ==
    /\ pc = "checkout"
    /\ cmds' = cmds \cup {<<"checkout", CurBranch>>}
    /\ \E ok \in {o \in BOOLEAN : o => ~rebasing} :
         IF ok THEN /\ head' = CurBranch
                    /\ stopped_by_conflicts' = FALSE
                    /\ pc' = IF target_commit_list = <<>> THEN "detach" ELSE "attempt"
                    /\ result' = result
               ELSE Fail /\ UNCHANGED <<head, stopped_by_conflicts>>
    /\ UNCHANGED <<inCatalog, upstream, checkedOut, commit, remoteTip, rebasing, disk,
                   conflicts, all_branches, idx, branch_commit, target_commit_list,
                   run, inProgress, commit0, attempts, skipped, memo0, ended, prevResult, prevEnded, prevInProgress>>

\* Variant of is_rebasing: the markers are looked for in the wrong directory.
is_rebasing_nowhere(marker) == FALSE

\* is_rebasing: do the rebase markers of the scratch worktree exist.
is_rebasing(marker) == marker

\* attempt_rebase (lib.rs 192-208): the result, from the outcome of
\* `git rebase`, the markers it left and the outcome of `git rebase --abort`.
attempt_rebase(rebase_ok, marker, abortOk) ==
    IF rebase_ok THEN "Success"
    ELSE IF is_rebasing(marker) /\ ~abortOk THEN "Err"
    ELSE "Conflict"

\* Variant of Rebase: every topic branch moves onto the target.
RebaseEveryTopic(c, h, target) ==
    [x \in DOMAIN c |-> IF x \in Topics THEN <<x, target>> ELSE c[x]]

\* A successful `git rebase target`: the checked out branch h moves onto it.
Rebase(c, h, target) == [c EXCEPT ![h] = <<h, target>>]

\* Variant of StoppedByConflicts: a success clears the flag.
StoppedByConflictsReset(stopped, res) == res = "Conflict"

\* lib.rs 88-98: stopped_by_conflicts after a result.
StoppedByConflicts(stopped, res) == IF res = "Conflict" THEN TRUE ELSE stopped

\* Variant of AfterAttempt: a conflict ends the run with an error.
AfterAttemptBail(res, rest) ==
    IF res = "Success" THEN "detach" ELSE "returned"

\* lib.rs 84-99: where the candidate loop goes after a result, `rest` being
\* the candidates left.
AfterAttempt(res, rest) ==
    IF res = "Err" THEN "returned"
    ELSE IF res = "Success" THEN "detach"
    ELSE IF rest = <<>> THEN "detach" ELSE "attempt"

\* lib.rs 84-99: one pass of the candidate loop. A failed rebase leaves the
\* branch where it was.
AttemptRebase ==
    /\ pc = "attempt"
    /\ LET target_commit == Head(target_commit_list)
       IN  /\ cmds' = cmds \cup {<<"rebase", head>>}
           /\ target_commit_list' = Tail(target_commit_list)
           /\ \E rebase_ok, marker, abortOk \in BOOLEAN :
                LET res == attempt_rebase(rebase_ok, marker, abortOk)
                IN  /\ commit' = IF rebase_ok THEN Rebase(commit, head, target_commit)
                                 ELSE commit
                    \* the markers stay unless `git rebase --abort` ran and succeeded
                    /\ rebasing' = IF rebase_ok THEN rebasing
                                   ELSE marker /\ ~(is_rebasing(marker) /\ abortOk)
                    /\ attempts' = IF res = "Err" THEN attempts
                                   ELSE Append(attempts, <<target_commit, res>>)
                    /\ stopped_by_conflicts' = StoppedByConflicts(stopped_by_conflicts, res)
                    /\ pc' = AfterAttempt(res, Tail(target_commit_list))
                    /\ result' = IF AfterAttempt(res, Tail(target_commit_list)) = "returned"
                                 THEN "Err" ELSE result
    /\ UNCHANGED <<inCatalog, upstream, checkedOut, remoteTip, head, disk,
                   conflicts, all_branches, idx, branch_commit,
                   run, inProgress, commit0, skipped, memo0, ended, prevResult, prevEnded, prevInProgress>>

\* Variant of ShouldRemember: every processed branch is recorded.
ShouldRememberAlways(stopped) == TRUE

\* lib.rs 104: is the branch recorded in the memo.
ShouldRemember(stopped) == stopped

\* lib.rs 106-107: the commit recorded in the memo, looked up again.
NewBranchCommit(b) == commit[b]

\* What is kept of a branch processed to its end.
Ended == [attempts |-> attempts, rest |-> target_commit_list]

\* lib.rs 101-112: detach, then record the branch when stopped by conflicts.
FinishBranch ==
    /\ pc = "detach"
    /\ LET b == CurBranch
       IN \E detachOk, revOk, writeOk \in BOOLEAN :
            IF ~detachOk
              THEN Fail /\ UNCHANGED <<head, conflicts, disk, idx, ended, inProgress>>
            ELSE
              /\ head' = Detached
              /\ IF ~ShouldRemember(stopped_by_conflicts)
                   THEN /\ NextBranch
                        /\ ended' = MemoInsert(ended, b, Ended)
                        /\ inProgress' = ""
                        /\ UNCHANGED <<conflicts, disk>>
                 ELSE IF ~revOk
                   THEN Fail /\ UNCHANGED <<conflicts, disk, idx, ended, inProgress>>
                 ELSE
                   /\ conflicts' = MemoInsert(conflicts, b, NewBranchCommit(b))
                   /\ IF writeOk
                        THEN /\ disk' = Persist(MemoInsert(conflicts, b,
                                                           NewBranchCommit(b)), disk)
                             /\ ended' = MemoInsert(ended, b, Ended)
                             /\ inProgress' = ""
                             /\ NextBranch
                        ELSE Fail /\ UNCHANGED <<disk, idx, ended, inProgress>>
    /\ UNCHANGED <<inCatalog, upstream, checkedOut, commit, remoteTip, rebasing,
                   all_branches, branch_commit, target_commit_list, stopped_by_conflicts,
                   run, commit0, cmds, attempts, skipped, memo0, prevResult, prevEnded, prevInProgress>>

\* The user invokes autorebase again on the repository as the last
\* invocation left it.
Invoke ==
    /\ pc = "returned"
    /\ run < MaxRuns
    /\ run' = run + 1
    /\ pc' = "start"
    /\ result' = "Running"
    /\ conflicts' = EmptyMemo
    /\ all_branches' = <<>>
    /\ idx' = 1
    /\ branch_commit' = <<>>
    /\ target_commit_list' = <<>>
    /\ stopped_by_conflicts' = FALSE
    /\ commit0' = commit
    /\ cmds' = {}
    /\ attempts' = <<>>
    /\ skipped' = EmptyMemo
    /\ memo0' = <<>>
    /\ ended' = EmptyMemo
    /\ prevResult' = result
    /\ prevEnded' = ended
    /\ inProgress' = ""
    /\ prevInProgress' = inProgress
    /\ UNCHANGED repo

Next ==
    \/ Start
    \/ CheckoutOnto
    \/ Pull
    \/ DetachOnto
    \/ Evaluate
    \/ Resolve
    \/ CheckoutBranch
    \/ AttemptRebase
    \/ FinishBranch
    \/ Invoke

Spec == Init /\ [][Next]_vars

\* The process is killed in the middle of autorebase: nothing after the
\* current call runs. A kill during `git rebase` may leave the rebase in
\* progress, a kill during lib.rs 102 may or may not have detached.
Interrupt ==
    /\ pc # "returned"
    /\ pc' = "returned"
    /\ result' = "Killed"
    /\ rebasing' \in IF pc = "attempt" THEN BOOLEAN ELSE {rebasing}
    /\ head' \in IF pc \in {"detach", "detach_onto"} THEN {head, Detached} ELSE {head}
    /\ UNCHANGED <<inCatalog, upstream, checkedOut, commit, remoteTip, disk,
                   conflicts, all_branches, idx, branch_commit, target_commit_list,
                   stopped_by_conflicts, obs>>

NextOrInterrupt == Next \/ Interrupt

SpecCrash == Init /\ [][NextOrInterrupt]_vars

\* A step of autorebase itself. The program is one thread of blocking
\* calls: as long as it has not returned, its next call is made and
\* returns. Nothing obliges the user to invoke it again.
RunStep ==
    \/ Start
    \/ CheckoutOnto
    \/ Pull
    \/ DetachOnto
    \/ Evaluate
    \/ Resolve
    \/ CheckoutBranch
    \/ AttemptRebase
    \/ FinishBranch

\* Invocations followed under fairness.
InvokeFair == run < MaxFairRuns /\ Invoke

NextFair == RunStep \/ InvokeFair

FairSpec == Init /\ [][NextFair]_vars /\ WF_vars(RunStep)

----------------------------------------------------------------------------
\* Properties

Tip == commit[onto_branch][2]
HasConflict(att) == \E i \in 1..Len(att) : att[i][2] = "Conflict"
HasSuccess(att) == \E i \in 1..Len(att) : att[i][2] = "Success"
AllConflict(att) == \A i \in 1..Len(att) : att[i][2] = "Conflict"
OnDisk(b) == \E p \in disk : p[1] = b
Processing == pc \in {"resolve", "checkout", "attempt", "detach"}

\* C1, as claimed: at the end of a branch's processing the memo holds an entry
\* for it only if every candidate was attempted and every attempt returned
\* Conflict, and holds none whenever some candidate returned Success.
C1_EntryOnlyWhenExhausted ==
    \A b \in DOMAIN ended :
        /\ (b \in DOMAIN conflicts \/ OnDisk(b))
              => ended[b].rest = <<>> /\ AllConflict(ended[b].attempts)
        /\ HasSuccess(ended[b].attempts) => b \notin DOMAIN conflicts /\ ~OnDisk(b)

\* C1, amended: at the end of a branch's processing the memo, in memory and
\* on disk, holds an entry for the branch exactly when some attempt returned
\* Conflict, also when an older candidate then succeeded; the entry is the
\* commit the branch points at after the attempts.
C1_EntryIffSomeConflict ==
    \A b \in DOMAIN ended :
        IF HasConflict(ended[b].attempts)
          THEN MemoGet(conflicts, b) = <<commit[b]>> /\ <<b, commit[b]>> \in disk
          ELSE b \notin DOMAIN conflicts /\ ~OnDisk(b)

C1_Witness ==
    \E b \in DOMAIN ended :
        /\ HasConflict(ended[b].attempts)
        /\ HasSuccess(ended[b].attempts)
        /\ <<b, commit[b]>> \in disk

\* C2: the candidates of a processed branch are the mainline commits above
\* its merge base, tried newest first from the mainline tip; every attempt
\* before the last returned Conflict, a Success ends the attempts and leaves
\* the branch on that candidate, and the older candidates stay untried.
C2_Shape(b, att, rest, last) ==
    /\ \A i \in 1..Len(att) : att[i][1] = Tip - i + 1
    /\ \A i \in 1..Len(rest) : rest[i] = Tip - Len(att) - i + 1
    /\ \A i \in 1..(Len(att) - 1) : att[i][2] = "Conflict"
    /\ HasSuccess(att) => last /\ commit[b] = <<b, att[Len(att)][1]>>
    /\ ~HasSuccess(att) => (last => rest = <<>>)

C2_NewestFirstUntilSuccess ==
    /\ pc \in {"attempt", "detach"} =>
          /\ C2_Shape(CurBranch, attempts, target_commit_list, pc = "detach")
          /\ Len(attempts) + Len(target_commit_list) = Tip - branch_commit[2]
          /\ ~HasSuccess(attempts) => commit[CurBranch] = branch_commit
    /\ \A b \in DOMAIN ended :
          C2_Shape(b, ended[b].attempts, ended[b].rest, TRUE)

C2_Witness ==
    \E b \in DOMAIN ended :
        /\ Len(ended[b].attempts) = 2
        /\ ended[b].attempts[1][2] = "Conflict"
        /\ ended[b].attempts[2][2] = "Success"
        /\ ended[b].rest # <<>>

\* C3: a branch whose attempts all returned Conflict ends with its current
\* commit in the persisted memo, and the next invocation skips it as
\* unchanged since the conflict: no checkout, no rebase, the entry stays.
ConflictedFinal(e) == e.attempts # <<>> /\ AllConflict(e.attempts)

C3_ConflictRememberedThenSkipped ==
    /\ \A b \in DOMAIN ended :
          ConflictedFinal(ended[b]) => <<b, commit[b]>> \in disk
    /\ \A b \in DOMAIN prevEnded :
          ConflictedFinal(prevEnded[b]) =>
              /\ <<"checkout", b>> \notin cmds
              /\ <<"rebase", b>> \notin cmds
              /\ <<b, commit[b]>> \in disk
              /\ b \notin DOMAIN ended
              /\ ~(Processing /\ CurBranch = b)
              /\ b \in DOMAIN skipped => skipped[b] = "unchanged-since-conflict"

C3_Witness ==
    \E b \in DOMAIN prevEnded :
        /\ ConflictedFinal(prevEnded[b])
        /\ b \in DOMAIN skipped
        /\ skipped[b] = "unchanged-since-conflict"
        /\ result = "Ok"

\* C4, as claimed: an invocation that follows one that returned Ok changes
\* no branch's commit and issues no rebase.
C4_SecondRunChangesNothing ==
    prevResult = "Ok" =>
        /\ commit = commit0
        /\ \A b \in Branches : <<"rebase", b>> \notin cmds

\* A local branch: a topic branch, or the mainline when it is in the catalog.
Local(b) == b \in Topics \/ inCatalog

\* C5, as claimed: every local branch with an upstream tracking ref, the
\* mainline included, points after the run at the commit it pointed at before.
C5_UpstreamUntouched ==
    \A b \in Branches : Local(b) /\ upstream[b] => commit[b] = commit0[b]

\* C5, amended: every local branch with an upstream tracking ref keeps its
\* commit over a run, except the mainline when it is checked out in no
\* worktree: the refresh before the loop fast-forwards it to its upstream.
C5_UpstreamUntouchedButMainline ==
    \A b \in Branches :
        Local(b) /\ upstream[b] /\ (b = onto_branch => ~ShouldPull(all_branches))
            => commit[b] = commit0[b]

C5_Witness ==
    /\ result = "Ok"
    /\ \E b \in Topics :
          /\ upstream[b]
          /\ commit[b][2] < Tip
          /\ b \in DOMAIN skipped
    /\ \E c \in Topics : commit[c] # commit0[c]

\* C6: a branch the catalog reports as checked out in a worktree, the
\* mainline included, gets no checkout, pull or rebase and keeps its commit.
C6_CheckedOutUntouched ==
    \A i \in 1..Len(all_branches) :
        all_branches[i].worktree_path =>
            LET b == all_branches[i].branch
            IN  /\ commit[b] = commit0[b]
                /\ \A c \in {"checkout", "pull", "rebase"} : <<c, b>> \notin cmds

C6_Witness ==
    /\ result = "Ok"
    /\ \E i \in 1..Len(all_branches) :
          /\ all_branches[i].branch = onto_branch
          /\ all_branches[i].worktree_path
          /\ upstream[onto_branch]
          /\ Tip < remoteTip
    /\ \E b \in Topics :
          /\ checkedOut[b]
          /\ ~upstream[b]
          /\ commit[b][2] < Tip
          /\ skipped[b] = "checked-out"
    /\ \E c \in Topics : commit[c] # commit0[c]

\* The last processed branch had an empty candidate list, at any point from
\* the resolution of the list up to the start of the next processed branch.
EmptyListBranch ==
    /\ memo0 # <<>>
    /\ \/ /\ pc \in {"checkout", "detach"}
          /\ attempts = <<>>
          /\ target_commit_list = <<>>
       \/ /\ memo0[1] \in DOMAIN ended
          /\ ended[memo0[1]] = [attempts |-> <<>>, rest |-> <<>>]

\* C7, as claimed: with an empty candidate list the branch's commit and the
\* memo, in memory and on disk, are exactly as before the branch was
\* processed, whatever the memo held.
C7_EmptyListLeavesMemo ==
    EmptyListBranch =>
        /\ commit[memo0[1]] = memo0[2]
        /\ conflicts = memo0[3]
        /\ disk = memo0[4]

\* C7, amended: with an empty candidate list the branch's commit is as before
\* and so is the memo, in memory and on disk, except that an entry the memo
\* held for that branch (at another commit than its current one) is removed.
C7_EmptyListForgetsOnlyBranch ==
    EmptyListBranch =>
        /\ commit[memo0[1]] = memo0[2]
        /\ conflicts = MemoRemove(memo0[3], memo0[1])
        /\ disk = {p \in memo0[4] : p[1] # memo0[1]}

C7_Witness ==
    /\ EmptyListBranch
    /\ memo0[1] \in DOMAIN ended
    /\ memo0[1] \in DOMAIN memo0[3]
    /\ memo0[3][memo0[1]] # memo0[2]
    /\ \E b \in DOMAIN conflicts : b # memo0[1]

\* C8, as claimed: whenever autorebase returns, with Ok or with an error, no
\* branch is checked out in the scratch worktree.
C8_ReturnsDetached ==
    pc = "returned" => head = Detached

\* C9: a step of the main loop changes no ref and no memo entry, in memory
\* or on disk, of a branch other than the one being processed, and never
\* the mainline; a branch whose first attempt, onto the mainline tip,
\* succeeded sits on the mainline tip for the rest of the run.
C9_Step ==
    pc = "loop" \/ Processing =>
        \A c \in Branches :
            /\ c = onto_branch => commit'[c] = commit[c]
            /\ c # CurBranch =>
                  /\ commit'[c] = commit[c]
                  /\ MemoGet(conflicts', c) = MemoGet(conflicts, c)
                  /\ {p \in disk' : p[1] = c} = {p \in disk : p[1] = c}

C9_Final ==
    \A b \in DOMAIN ended :
        ended[b].attempts = <<<<Tip, "Success">>>> => commit[b] = <<b, Tip>>

C9_NoInterference == [][C9_Step]_vars /\ []C9_Final

C9_Witness ==
    /\ result = "Ok"
    /\ DOMAIN ended = Topics
    /\ \A b \in Topics :
          /\ ended[b].attempts = <<<<Tip, "Success">>>>
          /\ commit0[b] # commit[b]
          /\ commit[b] = <<b, Tip>>
    /\ commit[onto_branch] = commit0[onto_branch]

\* C10: an attempt that returns Conflict does not end the run: the loop goes
\* on with the same branch, and a run that returns Ok has evaluated every
\* branch of the catalog, each one skipped or processed to its end.
C10_Step ==
    /\ pc = "attempt"
    /\ attempts' # attempts
    /\ attempts'[Len(attempts')][2] = "Conflict"
    => /\ result' = "Running"
       /\ pc' \in {"attempt", "detach"}
       /\ idx' = idx
       /\ all_branches' = all_branches

C10_Final ==
    result = "Ok" =>
        /\ idx = Len(all_branches) + 1
        /\ \A i \in 1..Len(all_branches) :
              all_branches[i].branch \in DOMAIN skipped \cup DOMAIN ended

C10_ConflictIsNotFatal == [][C10_Step]_vars /\ []C10_Final

C10_Witness ==
    /\ result = "Ok"
    /\ "wip1" \in DOMAIN ended
    /\ AllConflict(ended["wip1"].attempts)
    /\ Len(ended["wip1"].attempts) > 1
    /\ "wip2" \in DOMAIN ended
    /\ HasSuccess(ended["wip2"].attempts)

\* The catalog of this invocation lists the mainline, checked out nowhere.
MainlineFree ==
    \E i \in 1..Len(all_branches) :
        /\ all_branches[i].branch = onto_branch
        /\ ~all_branches[i].worktree_path
RefreshStarted ==
    pc \in {"checkout_onto", "pull", "detach_onto"} \/ <<"checkout", onto_branch>> \in cmds

\* C11: once the catalog is read, the refresh of the mainline (checkout,
\* pull, detach) is started exactly when the mainline is in the catalog and
\* checked out in no worktree, and the main loop is then entered only after
\* the pull; otherwise no command is issued for the mainline and the run
\* goes on with the main loop, without an error.
C11_State ==
    all_branches # <<>> =>
        /\ RefreshStarted <=> MainlineFree
        /\ \A b \in Branches : <<"pull", b>> \in cmds => b = onto_branch /\ MainlineFree
        /\ MainlineFree /\ (pc = "loop" \/ Processing \/ result = "Ok") =>
              /\ <<"pull", onto_branch>> \in cmds
              /\ commit[onto_branch] = <<onto_branch, remoteTip>>

C11_Step ==
    pc = "start" /\ all_branches' # <<>> /\ ~MainlineFree' =>
        pc' = "loop" /\ result' = "Running" /\ cmds' = cmds

C11_RefreshIffMainlineFree == []C11_State /\ [][C11_Step]_vars

C11_Witness ==
    /\ result = "Ok"
    /\ ~inCatalog
    /\ ~MainlineFree
    /\ cmds # {}
    /\ \A b \in Topics : commit[b] # commit0[b]

\* C12: while a branch is in progress, from its checkout to the end of its
\* attempts, the memo on disk holds no entry for it, also when autorebase
\* returned or was killed at that point; the invocation that follows does not
\* skip that branch as unchanged since a conflict.
C12_NoEntryWhileInProgress ==
    /\ Processing => ~OnDisk(CurBranch)
    /\ inProgress # "" => ~OnDisk(inProgress)
    /\ \A c \in {"checkout", "rebase"} : \A b \in Topics :
          <<c, b>> \in cmds /\ b \notin DOMAIN ended => ~OnDisk(b)
    /\ prevInProgress \in DOMAIN skipped =>
          skipped[prevInProgress] # "unchanged-since-conflict"

C12_Witness ==
    /\ prevResult = "Killed"
    /\ prevInProgress # ""
    /\ pc = "attempt"
    /\ CurBranch = prevInProgress
    /\ attempts # <<>>

\* C13: every evaluated branch is either skipped or processed; the reason of
\* a skip is the first that matches among is-target, tracks-upstream,
\* checked-out, unchanged-since-conflict; a processed branch matches none;
\* and the step that skips a branch for one of the first three reasons looks
\* up no commit and leaves the memo, in memory and on disk, as it is.
C13_State ==
    \A i \in 1..Len(all_branches) :
        LET info == all_branches[i]
            b == info.branch
            target == b = onto_branch
            tracks == ~target /\ info.upstream
            out == ~target /\ ~info.upstream /\ info.worktree_path
        IN  /\ i < idx => (b \in DOMAIN skipped) # (b \in DOMAIN ended)
            /\ b \in DOMAIN skipped =>
                  /\ i <= idx
                  /\ skipped[b] = "is-target" <=> target
                  /\ skipped[b] = "tracks-upstream" <=> tracks
                  /\ skipped[b] = "checked-out" <=> out
                  /\ skipped[b] = "unchanged-since-conflict" <=> ~(target \/ tracks \/ out)
                  /\ skipped[b] = "unchanged-since-conflict" =>
                        MemoGet(conflicts, b) = <<commit[b]>>
            /\ (b \in DOMAIN ended \/ (Processing /\ i = idx)) =>
                  /\ ~(target \/ tracks \/ out)
                  /\ b \notin DOMAIN skipped

C13_Step ==
    /\ pc = "loop"
    /\ CurBranch = onto_branch \/ Cur.upstream \/ Cur.worktree_path
    => /\ CurBranch \in DOMAIN skipped'
       /\ idx' = idx + 1
       /\ result' # "Err"
       /\ <<conflicts, disk, branch_commit, cmds>>' = <<conflicts, disk, branch_commit, cmds>>

C13_SkipOrder == []C13_State /\ [][C13_Step]_vars

C13_Witness ==
    /\ result = "Ok"
    /\ \E b \in Topics :
          /\ upstream[b]
          /\ checkedOut[b]
          /\ <<b, commit[b]>> \in disk
          /\ skipped[b] = "tracks-upstream"
    /\ \E b \in Topics :
          /\ b \in DOMAIN skipped
          /\ skipped[b] = "unchanged-since-conflict"

\* C14: an attempt that returns Conflict leaves every ref where it was and
\* no rebase in progress in the scratch worktree, so every candidate is
\* tried with the branch checked out at the commit it had before its first
\* attempt.
C14_Step ==
    /\ pc = "attempt"
    /\ attempts' # attempts
    /\ attempts'[Len(attempts')][2] = "Conflict"
    => /\ commit' = commit
       /\ rebasing' = FALSE
       /\ head' = head

C14_State ==
    pc = "attempt" =>
        /\ commit[CurBranch] = branch_commit
        /\ ~rebasing
        /\ head = CurBranch

C14_AttemptsIndependent == [][C14_Step]_vars /\ []C14_State

C14_Witness ==
    /\ pc = "attempt"
    /\ Len(attempts) = 2
    /\ AllConflict(attempts)
    /\ commit[CurBranch] = branch_commit

\* C15: when the candidate list of a branch cannot be resolved, autorebase
\* has returned an error: no checkout and no rebase was issued for the
\* branch, its ref is where it was, no later branch of the catalog was
\* evaluated, and the branches processed before keep the commit they were
\* rebased onto and their entry in the memo on disk.
C15_ResolveFailureIsFatal ==
    \A b \in Topics :
        <<"resolve failed", b>> \in cmds =>
            /\ pc = "returned"
            /\ result = "Err"
            /\ all_branches[idx].branch = b
            /\ <<"checkout", b>> \notin cmds
            /\ <<"rebase", b>> \notin cmds
            /\ commit[b] = commit0[b]
            /\ \A i \in idx..Len(all_branches) :
                  /\ all_branches[i].branch \notin DOMAIN skipped \cup DOMAIN ended
                  /\ <<"checkout", all_branches[i].branch>> \notin cmds
            /\ \A e \in DOMAIN ended :
                  LET att == ended[e].attempts
                  IN  /\ HasSuccess(att) => commit[e] = <<e, att[Len(att)][1]>>
                      /\ HasConflict(att) => <<e, commit[e]>> \in disk

C15_Witness ==
    /\ <<"resolve failed", "wip2">> \in cmds
    /\ "wip1" \in DOMAIN ended
    /\ HasConflict(ended["wip1"].attempts)
    /\ HasSuccess(ended["wip1"].attempts)
    /\ commit["wip1"] # commit0["wip1"]

\* C16: the memo in memory is what the file held when the invocation
\* started (empty for no file), changed only by forgetting or remembering
\* the current branch; and wherever a version-control command is issued, the
\* file holds exactly the memo in memory.
C16_State ==
    pc \notin {"start", "returned"} => disk = WriteToFile(conflicts)

C16_Step ==
    /\ pc = "start" =>
          \/ conflicts' = conflicts /\ pc' = "returned"
          \/ /\ conflicts' = ReadFromFile(disk)
             /\ disk = {} => conflicts' = EmptyMemo
    /\ pc \notin {"start", "returned"} =>
          \/ conflicts' = conflicts
          \/ pc = "loop" /\ conflicts' = MemoRemove(conflicts, CurBranch)
          \/ pc = "detach" /\ conflicts' = MemoInsert(conflicts, CurBranch, commit[CurBranch])

C16_MemoSavedAfterEveryMutation == []C16_State /\ [][C16_Step]_vars

C16_Witness ==
    /\ pc = "attempt"
    /\ CurBranch = "wip2"
    /\ conflicts # memo0[3]
    /\ "wip1" \in DOMAIN ended
    /\ <<"wip1", commit["wip1"]>> \in disk
    /\ commit["wip1"] # commit0["wip1"]

\* C17, as claimed: branches are processed one at a time; when a branch is
\* examined every earlier branch of the catalog has reached its final state
\* and the scratch worktree is detached; the scratch worktree never has a
\* branch checked out other than the one in progress, or the mainline
\* during the refresh before the loop.
C17_StrictlySequential ==
    /\ pc = "loop" => head = Detached /\ inProgress = ""
    /\ Processing => head \in {Detached, CurBranch} /\ inProgress = CurBranch
    /\ pc \in {"checkout_onto", "pull", "detach_onto"} =>
          head \in {Detached, onto_branch} /\ inProgress = ""
    /\ pc = "loop" \/ Processing =>
          \A i \in 1..(idx - 1) :
              all_branches[i].branch \in DOMAIN skipped \cup DOMAIN ended

\* C18: every run returns, with Ok or with an error; no branch of the
\* catalog is examined twice and on an Ok return each has been examined,
\* none left in progress; the candidates attempted for a branch are distinct
\* and, with those not yet attempted, are exactly its candidate list, so
\* there are never more attempts than candidates.
Examined == DOMAIN skipped \cup DOMAIN ended
Catalog == {all_branches[i].branch : i \in 1..Len(all_branches)}
Candidates(bc) == [i \in 1..(Tip - bc[2]) |-> Tip - i + 1]
Targets(att) == [i \in 1..Len(att) |-> att[i][1]]

C18_State ==
    /\ DOMAIN skipped \cap DOMAIN ended = {}
    /\ pc = "loop" \/ Processing =>
          /\ CurBranch \notin Examined
          /\ Examined = {all_branches[i].branch : i \in 1..(idx - 1)}
    /\ pc \in {"checkout", "attempt"} =>
          Targets(attempts) \o target_commit_list = Candidates(branch_commit)
    /\ pc \in {"checkout", "attempt", "detach"} =>
          /\ Len(attempts) <= Len(Candidates(branch_commit))
          /\ \A i, j \in 1..Len(attempts) : attempts[i][1] = attempts[j][1] => i = j
    /\ pc = "returned" /\ result = "Ok" =>
          /\ Examined = Catalog
          /\ inProgress = ""

C18_Step ==
    /\ idx' # idx => pc' = "start" \/ (idx' = idx + 1 /\ CurBranch \notin Examined)
    /\ attempts' # attempts =>
          \/ attempts' = <<>>
          \/ /\ Len(attempts') = Len(attempts) + 1
             /\ \A i \in 1..Len(attempts) : attempts[i][1] # attempts'[Len(attempts')][1]

C18_Terminates ==
    /\ []C18_State
    /\ [][C18_Step]_vars
    /\ []<>(pc = "returned")

C18_Witness ==
    /\ pc = "returned"
    /\ result = "Ok"
    /\ run > 1
    /\ prevResult = "Err"
    /\ DOMAIN skipped # {}
    /\ \E b \in DOMAIN ended : Len(ended[b].attempts) > 1 /\ ended[b].rest = <<>>
    /\ \E b \in DOMAIN ended : HasSuccess(ended[b].attempts)

====
